---- MODULE Spec2Model ----
(***************************************************************************)
(* A model of the miscue-tolerant prompt language-model FST builder:       *)
(* prompt_lmfst.py (PromptLMFST, readHomophones) and the path recipes of   *)
(* make_one_miscue_tolerant_lm.py.                                         *)
(***************************************************************************)
EXTENDS Naturals, Sequences, FiniteSets, TLC

VARIABLES fst, result, pc, prompt, order, output

vars == <<fst, result, pc, prompt, order, output>>

(***************************************************************************)
(* Bounds of the model.                                                    *)
(***************************************************************************)
MaxWords == 4
MaxStates == 2
MaxItems == 2

(***************************************************************************)
(* Labels.  Python's None is the label getattr(item, "in_label", None)     *)
(* yields for a FinalState entry.                                          *)
(***************************************************************************)
WordLabels == {"read", "red", "the"}

None == "None"

special_labels == [Epsilon |-> "<eps>", Rubbish |-> "[RUB]", Skip |-> "[SKP]"]

weights ==
    [Correct |-> 100, Rubbish |-> 5, Skip |-> 10, Repeat |-> 30,
     JumpForward |-> 5, JumpBackward |-> 5, Truncation |-> 5,
     PrematureEnd |-> 3, FinalState |-> 0]

AllLabels == WordLabels \cup {special_labels.Epsilon, special_labels.Rubbish,
                              special_labels.Skip, None}

(***************************************************************************)
(* Building blocks.                                                        *)
(***************************************************************************)
Word(label, start, final) ==
    [label |-> label, start |-> start, final |-> final,
     next_start |-> final, prev_final |-> start]

Arc(from_state, to_state, in_label, out_label, weight) ==
    [type |-> "Arc", from_state |-> from_state, to_state |-> to_state,
     in_label |-> in_label, out_label |-> out_label, weight |-> weight]

FinalState(state, weight) ==
    [type |-> "FinalState", state |-> state, weight |-> weight]

\* getattr(item, "in_label", None)
InLabelOrNone(item) ==
    IF item.type = "Arc" THEN item.in_label ELSE None

(***************************************************************************)
(* The homophone file: a set of lines, each line the set of its words.     *)
(* A filepath of None is the record with given = FALSE.                    *)
(***************************************************************************)
Lines == (SUBSET WordLabels) \ {{}}

HomophoneFiles ==
    {[given |-> FALSE, lines |-> {}]}
        \cup {[given |-> TRUE, lines |-> f] : f \in SUBSET Lines}

\* A defaultdict(set): total over the labels, empty where nothing was stored.
readHomophones(filepath) ==
    IF ~filepath.given
    THEN [w \in AllLabels |-> {}]
    ELSE [w \in AllLabels |-> UNION {line \in filepath.lines : w \in line}]

(***************************************************************************)
(* PromptLMFST: the object is the record of its fields.                    *)
(***************************************************************************)
PromptLMFST(homophones) ==
    [words |-> <<>>, states |-> <<>>, state_counter |-> 0,
     initialised |-> FALSE, homophones |-> homophones]

\* The value state_counter is initialised to.
InitialState == PromptLMFST(<<>>).state_counter

newState(p) ==
    [p EXCEPT !.state_counter = p.state_counter + 1,
              !.states = ((p.state_counter + 1) :> <<>>) @@ p.states]

addNextWord(p, label) ==
    IF ~p.initialised
    THEN LET q == [p EXCEPT !.states = (p.state_counter :> <<>>) @@ p.states]
             r == newState(q)
         IN  [r EXCEPT !.words = Append(p.words,
                                   Word(label, p.state_counter, r.state_counter)),
                       !.initialised = TRUE]
    ELSE LET r == newState(p)
         IN  [r EXCEPT !.words = Append(p.words,
                                   Word(label, p.words[Len(p.words)].final,
                                        r.state_counter))]

\* A guard that also counts an arc whose input label is the label itself.
homophoneArcExists_OrEqual(p, from_state, label) ==
    LET labels_from_state ==
            {InLabelOrNone(p.states[from_state][i]) :
                i \in 1..Len(p.states[from_state])}
    IN  \E other_label \in labels_from_state :
            label = other_label \/ label \in p.homophones[other_label]

homophoneArcExists(p, from_state, label) ==
    LET labels_from_state ==
            {InLabelOrNone(p.states[from_state][i]) :
                i \in 1..Len(p.states[from_state])}
    IN  \E other_label \in labels_from_state : label \in p.homophones[other_label]

addArc(p, from_state, to_state, in_label, out_label, weight) ==
    IF ~homophoneArcExists(p, from_state, in_label)
    THEN [p EXCEPT !.states[from_state] =
              Append(@, Arc(from_state, to_state, in_label, out_label, weight))]
    ELSE p

addFinalState(p, state, weight) ==
    [p EXCEPT !.states[state] = Append(@, FinalState(state, weight))]

RECURSIVE addWordSequenceFrom(_, _, _)
addWordSequenceFrom(p, sequence, i) ==
    IF i > Len(sequence) THEN p
    ELSE addWordSequenceFrom(addNextWord(p, sequence[i]), sequence, i + 1)

addWordSequence(p, sequence) == addWordSequenceFrom(p, sequence, 1)

(***************************************************************************)
(* isDeterministic: the scan over the states in dictionary order (the ids  *)
(* are inserted in increasing order) and over each state's entries in list *)
(* order.  A FinalState entry that is not found in seen_labels reaches     *)
(* item.in_label, which raises AttributeError.                             *)
(***************************************************************************)
RECURSIVE ScanItems(_, _, _)
ScanItems(items, i, seen_labels) ==
    IF i > Len(items) THEN "next"
    ELSE IF InLabelOrNone(items[i]) \in seen_labels THEN "False"
    ELSE IF items[i].type # "Arc" THEN "AttributeError"
    ELSE ScanItems(items, i + 1, seen_labels \cup {items[i].in_label})

RECURSIVE ScanStates(_, _)
ScanStates(p, ids) ==
    IF ids = {} THEN "True"
    ELSE LET s == CHOOSE m \in ids : \A n \in ids : m <= n
             r == ScanItems(p.states[s], 1, {})
         IN  IF r = "next" THEN ScanStates(p, ids \ {s}) ELSE r

isDeterministic(p) == ScanStates(p, DOMAIN p.states)

\* One line of inText: the fields of the entry (Arc or FinalState) in order.
Line(leaf) ==
    IF leaf.type = "Arc"
    THEN <<leaf.from_state, leaf.to_state, leaf.in_label, leaf.out_label, leaf.weight>>
    ELSE <<leaf.state, leaf.weight>>

\* inText without the ID line: one line per entry, grouped by state.
RECURSIVE inTextFrom(_, _)
inTextFrom(p, ids) ==
    IF ids = {} THEN <<>>
    ELSE LET s == CHOOSE m \in ids : \A n \in ids : m <= n
         IN  [k \in 1..Len(p.states[s]) |-> Line(p.states[s][k])]
                 \o inTextFrom(p, ids \ {s})

inText(p) == inTextFrom(p, DOMAIN p.states)

(***************************************************************************)
(* The graph object under arbitrary calls of its methods.                  *)
(***************************************************************************)
TotalItems(p) ==
    Len(inText(p))

\* The object as constructed, over the homophone files of at most one line.
Init ==
    /\ \E filepath \in HomophoneFiles :
          /\ Cardinality(filepath.lines) <= 1
          /\ fst = PromptLMFST(readHomophones(filepath))
    /\ result = "none"
    /\ pc = "api"
    /\ prompt = <<>>
    /\ order = <<>>
    /\ output = <<>>

NewState ==
    /\ fst.state_counter < MaxStates
    /\ fst' = newState(fst)
    /\ UNCHANGED <<result, pc, prompt, order, output>>

AddNextWord(label) ==
    /\ fst.state_counter < MaxStates
    /\ fst' = addNextWord(fst, label)
    /\ UNCHANGED <<result, pc, prompt, order, output>>

AddArc(from_state, to_state, in_label) ==
    /\ TotalItems(fst) < MaxItems
    /\ from_state \in DOMAIN fst.states
    /\ to_state \in DOMAIN fst.states
    /\ fst' = addArc(fst, from_state, to_state, in_label, in_label, weights.Correct)
    /\ UNCHANGED <<result, pc, prompt, order, output>>

AddFinalState(state) ==
    /\ TotalItems(fst) < MaxItems
    /\ state \in DOMAIN fst.states
    /\ fst' = addFinalState(fst, state, weights.FinalState)
    /\ UNCHANGED <<result, pc, prompt, order, output>>

IsDeterministic ==
    /\ result' = isDeterministic(fst)
    /\ UNCHANGED <<fst, pc, prompt, order, output>>

Next ==
    \/ NewState
    \/ \E label \in WordLabels : AddNextWord(label)
    \/ \E from_state, to_state \in 0..MaxStates : \E in_label \in WordLabels :
          AddArc(from_state, to_state, in_label)
    \/ \E state \in 0..MaxStates : AddFinalState(state)
    \/ IsDeterministic

Spec == Init /\ [][Next]_vars

(***************************************************************************)
(* The path recipes of make_one_miscue_tolerant_lm.py.  Each loop is a     *)
(* recursion over the index into p_fst.words.                              *)
(***************************************************************************)
RECURSIVE addCorrectLoop(_, _)
addCorrectLoop(p, i) ==
    IF i > Len(p.words) THEN p
    ELSE LET word == p.words[i]
         IN  addCorrectLoop(
                 addArc(p, word.start, word.final, word.label, word.label,
                        weights.Correct),
                 i + 1)

\* The correct paths without the final marker on the last word's final state.
addCorrectPaths_NoFinalState(p) ==
    addCorrectLoop(p, 1)

addCorrectPaths(p) ==
    LET q == addCorrectLoop(p, 1)
    IN  addFinalState(q, q.words[Len(q.words)].final, weights.FinalState)

RECURSIVE addRubbishLoop(_, _)
addRubbishLoop(p, i) ==
    IF i > Len(p.words) THEN p
    ELSE LET word == p.words[i]
         IN  addRubbishLoop(
                 addArc(p, word.start, word.start, special_labels.Rubbish,
                        special_labels.Rubbish, weights.Rubbish),
                 i + 1)

addRubbishPaths(p) ==
    LET q == addRubbishLoop(p, 1)
        last == q.words[Len(q.words)]
    IN  addArc(q, last.final, last.final, special_labels.Rubbish,
               special_labels.Rubbish, weights.Rubbish)

\* The skip of a pair without the comparison of the two labels.
addSkipPair_NoLabelCheck(p, word, next_word) ==
    LET q == newState(p)
        skip_state == q.state_counter
        r == addArc(q, word.start, skip_state, next_word.label,
                    special_labels.Skip, weights.Skip)
    IN  addArc(r, skip_state, next_word.final, special_labels.Epsilon,
               next_word.label, weights.Correct)

\* One pair (word, next_word) of zip(p_fst.words, p_fst.words[1:]).
addSkipPair(p, word, next_word) ==
    IF word.label # next_word.label
    THEN LET q == newState(p)
             skip_state == q.state_counter
             r == addArc(q, word.start, skip_state, next_word.label,
                         special_labels.Skip, weights.Skip)
         IN  addArc(r, skip_state, next_word.final, special_labels.Epsilon,
                    next_word.label, weights.Correct)
    ELSE p

RECURSIVE addSkipLoop(_, _)
addSkipLoop(p, i) ==
    IF i >= Len(p.words) THEN p
    ELSE addSkipLoop(addSkipPair(p, p.words[i], p.words[i + 1]), i + 1)

addSkipPaths(p) ==
    LET q == addSkipLoop(p, 1)
        last == q.words[Len(q.words)]
    IN  addArc(q, last.start, last.final, special_labels.Epsilon,
               special_labels.Skip, weights.Skip)

\* The repeat of a pair without the comparison of the two labels.
addRepeatPair_NoLabelCheck(p, word, next_word) ==
    addArc(p, word.final, word.final, word.label, word.label, weights.Repeat)

\* One pair (word, next_word) of zip(p_fst.words, p_fst.words[1:]).
addRepeatPair(p, word, next_word) ==
    IF word.label # next_word.label
    THEN addArc(p, word.final, word.final, word.label, word.label, weights.Repeat)
    ELSE p

RECURSIVE addRepeatLoop(_, _)
addRepeatLoop(p, i) ==
    IF i >= Len(p.words) THEN p
    ELSE addRepeatLoop(addRepeatPair(p, p.words[i], p.words[i + 1]), i + 1)

addRepeatPaths(p) ==
    LET q == addRepeatLoop(p, 1)
        last == q.words[Len(q.words)]
    IN  addArc(q, last.final, last.final, last.label, last.label, weights.Repeat)

(***************************************************************************)
(* Building one automaton: the prompt is read into the word chain, the     *)
(* correct paths are added, then the miscue recipes in `order`, and the    *)
(* graph is rendered.                                                      *)
(***************************************************************************)
Prompts == UNION {[1..n -> WordLabels] : n \in 1..MaxWords}

FixedOrder == <<"Rubbish", "Skip", "Repeat">>

Orders ==
    {o \in [1..3 -> {"Rubbish", "Skip", "Repeat"}] :
        \A i, j \in 1..3 : i # j => o[i] # o[j]}

BuildStart(orders) ==
    /\ \E filepath \in HomophoneFiles : fst = PromptLMFST(readHomophones(filepath))
    /\ prompt \in Prompts
    /\ order \in orders
    /\ result = "none"
    /\ pc = "words"
    /\ output = <<>>

BuildInit == BuildStart({FixedOrder})

PermInit == BuildStart(Orders)

\* The position in `order` of the recipe to run, and the step after it.
RecipeIndex == [recipe1 |-> 1, recipe2 |-> 2, recipe3 |-> 3]

AfterRecipe == [recipe1 |-> "recipe2", recipe2 |-> "recipe3", recipe3 |-> "render"]

AtRecipe(name) ==
    /\ pc \in DOMAIN RecipeIndex
    /\ order[RecipeIndex[pc]] = name

AddWordSequence ==
    /\ pc = "words"
    /\ fst' = addWordSequence(fst, prompt)
    /\ pc' = "correct"
    /\ UNCHANGED <<result, prompt, order, output>>

AddCorrectPaths ==
    /\ pc = "correct"
    /\ fst' = addCorrectPaths(fst)
    /\ pc' = "recipe1"
    /\ UNCHANGED <<result, prompt, order, output>>

AddRubbishPaths ==
    /\ AtRecipe("Rubbish")
    /\ fst' = addRubbishPaths(fst)
    /\ pc' = AfterRecipe[pc]
    /\ UNCHANGED <<result, prompt, order, output>>

AddSkipPaths ==
    /\ AtRecipe("Skip")
    /\ fst' = addSkipPaths(fst)
    /\ pc' = AfterRecipe[pc]
    /\ UNCHANGED <<result, prompt, order, output>>

AddRepeatPaths ==
    /\ AtRecipe("Repeat")
    /\ fst' = addRepeatPaths(fst)
    /\ pc' = AfterRecipe[pc]
    /\ UNCHANGED <<result, prompt, order, output>>

InText ==
    /\ pc = "render"
    /\ output' = inText(fst)
    /\ pc' = "done"
    /\ UNCHANGED <<fst, result, prompt, order>>

BuildNext ==
    \/ AddWordSequence
    \/ AddCorrectPaths
    \/ AddRubbishPaths
    \/ AddSkipPaths
    \/ AddRepeatPaths
    \/ InText

BuildSpec == BuildInit /\ [][BuildNext]_vars

PermSpec == PermInit /\ [][BuildNext]_vars

(***************************************************************************)
(* Vocabulary of the properties.                                           *)
(***************************************************************************)
IsArc(item) == item.type = "Arc"

ArcIndexes(p, s) == {i \in 1..Len(p.states[s]) : IsArc(p.states[s][i])}

Entries(p, s) == {p.states[s][i] : i \in 1..Len(p.states[s])}

\* Number of positions of the list `items` holding `item`.
Occurrences(items, item) == Cardinality({i \in 1..Len(items) : items[i] = item})

Homophonous(p, a, b) == a \in p.homophones[b] /\ b \in p.homophones[a]

IsPrefix(xs, ys) ==
    /\ Len(xs) <= Len(ys)
    /\ \A i \in 1..Len(xs) : xs[i] = ys[i]

\* C1: after the word chain and the four recipes in the fixed order, no state
\* has two distinct outgoing arcs whose input labels are equal or mutually
\* homophonous.
C1_Determinism ==
    pc = "done" =>
        \A s \in DOMAIN fst.states : \A i, j \in ArcIndexes(fst, s) :
            i # j =>
                LET a == fst.states[s][i].in_label
                    b == fst.states[s][j].in_label
                IN  a # b /\ ~Homophonous(fst, a, b)

\* An arc leaving from_state whose input label equals in_label or is
\* homophonous with it.
EquivalentArcAt(p, from_state, in_label) ==
    \E i \in ArcIndexes(p, from_state) :
        LET other == p.states[from_state][i].in_label
        IN  other = in_label \/ in_label \in p.homophones[other]

\* C2: addArc appends the arc to the list of `from` exactly when no arc leaving
\* `from` has an input label equal to or homophonous with the new one, and is
\* otherwise a no-op on the whole graph.
C2_AddArcGuard ==
    [][\A from_state, to_state \in 0..MaxStates : \A in_label \in WordLabels :
          AddArc(from_state, to_state, in_label) =>
              IF EquivalentArcAt(fst, from_state, in_label)
              THEN fst' = fst
              ELSE fst' = [fst EXCEPT !.states[from_state] =
                              Append(@, Arc(from_state, to_state, in_label,
                                            in_label, weights.Correct))]]_vars

\* C3: after the recipes in the fixed order every word's start -> final arc
\* labelled with the prompt's word is present along the chain from the initial
\* state, and the last word's final state carries a final marker.
C3_CorrectPath ==
    pc = "done" =>
        /\ Len(fst.words) = Len(prompt)
        /\ fst.words[1].start = InitialState
        /\ \A i \in 1..Len(prompt) :
              /\ \E k \in ArcIndexes(fst, fst.words[i].start) :
                    LET a == fst.states[fst.words[i].start][k]
                    IN  a.to_state = fst.words[i].final /\ a.in_label = prompt[i]
              /\ i < Len(prompt) => fst.words[i].final = fst.words[i + 1].start
        /\ \E item \in Entries(fst, fst.words[Len(prompt)].final) : ~IsArc(item)

C3_Witness ==
    /\ pc = "done"
    /\ prompt = <<"read", "red", "the">>
    /\ fst.homophones["read"] = {"read", "red"}

\* C4: the word chain is continuous: the first word starts at the initial
\* state, each word starts where the previous one ends, no two words share a
\* final state and no word's final is its own start.
C4_ChainContinuity ==
    LET w == fst.words
    IN  /\ Len(w) >= 1 => w[1].start = InitialState
        /\ \A i \in 1..Len(w) :
              /\ i < Len(w) => w[i].final = w[i + 1].start
              /\ w[i].final # w[i].start
              /\ \A j \in 1..Len(w) : i # j => w[i].final # w[j].final

\* C8: isDeterministic returns a boolean without raising: true exactly when no
\* state has two arcs with identical input labels, final markers ignored.
NoRepeatedInLabel(p) ==
    \A s \in DOMAIN p.states : \A i, j \in ArcIndexes(p, s) :
        i # j => p.states[s][i].in_label # p.states[s][j].in_label

C8_IsDeterministicTotal ==
    [][IsDeterministic =>
          result' = IF NoRepeatedInLabel(fst) THEN "True" ELSE "False"]_vars

\* C10: no call removes a registered state or an entry already stored: every
\* state's list after a call extends its list before the call.
C10_NothingRemoved ==
    [][\A s \in DOMAIN fst.states :
          /\ s \in DOMAIN fst'.states
          /\ IsPrefix(fst.states[s], fst'.states[s])]_vars

(***************************************************************************)
(* The skip and repeat recipes, read off the finished graph.               *)
(***************************************************************************)
Differ(i) == prompt[i] # prompt[i + 1]

\* The state the Skip recipe allocates for the pair (i, i + 1): the states
\* after the word chain, one per pair of differing labels, in order.
SkipStateOf(i) ==
    Len(prompt) + Cardinality({j \in 1..i : Differ(j)})

\* The arcs at word i's start that emit the skip marker while consuming a label.
SkipArcsAt(i) ==
    {a \in Entries(fst, fst.words[i].start) :
        /\ IsArc(a)
        /\ a.out_label = special_labels.Skip
        /\ a.in_label # special_labels.Epsilon}

SkipArc(i) ==
    Arc(fst.words[i].start, SkipStateOf(i), prompt[i + 1],
        special_labels.Skip, weights.Skip)

SkipStateAllocated(i) ==
    /\ SkipStateOf(i) \in DOMAIN fst.states
    /\ fst.states[SkipStateOf(i)] =
           <<Arc(SkipStateOf(i), fst.words[i + 1].final, special_labels.Epsilon,
                 prompt[i + 1], weights.Correct)>>

AllocatedStates == Len(prompt) + Cardinality({j \in 1..(Len(prompt) - 1) : Differ(j)})

\* C5 as stated: a pair of equal labels gets no state and no arc; a pair of
\* differing labels gets exactly one skip arc to a fresh state and that
\* state's epsilon arc to the next word's final.
C5_SkipPairsAsStated ==
    pc = "done" =>
        /\ fst.state_counter = AllocatedStates
        /\ \A i \in 1..(Len(prompt) - 1) :
              IF Differ(i)
              THEN /\ SkipArcsAt(i) = {SkipArc(i)}
                   /\ Occurrences(fst.states[fst.words[i].start], SkipArc(i)) = 1
                   /\ SkipStateAllocated(i)
              ELSE SkipArcsAt(i) = {}

\* C5 (amended): a pair of equal labels gets no state and no arc; a pair of
\* differing labels gets a fresh skip state with its epsilon arc to the next
\* word's final, and exactly one skip arc to it unless the next word's label is
\* a homophone of the word's label, in which case the skip arc is dropped.
C5_SkipPairs ==
    pc = "done" =>
        /\ fst.state_counter = AllocatedStates
        /\ \A i \in 1..(Len(prompt) - 1) :
              IF Differ(i)
              THEN /\ SkipStateAllocated(i)
                   /\ IF prompt[i + 1] \in fst.homophones[prompt[i]]
                      THEN SkipArcsAt(i) = {}
                      ELSE /\ SkipArcsAt(i) = {SkipArc(i)}
                           /\ Occurrences(fst.states[fst.words[i].start],
                                          SkipArc(i)) = 1
              ELSE SkipArcsAt(i) = {}

C5_Witness ==
    /\ pc = "done"
    /\ prompt = <<"the", "the", "read", "red">>
    /\ "red" \in fst.homophones["read"]

RepeatLoop(i) ==
    Arc(fst.words[i].final, fst.words[i].final, prompt[i], prompt[i], weights.Repeat)

\* The number of self-loops at word i's final labelled with word i's label.
RepeatLoopsAt(i) ==
    Cardinality({k \in ArcIndexes(fst, fst.words[i].final) :
        LET a == fst.states[fst.words[i].final][k]
        IN  /\ a.to_state = a.from_state
            /\ a.in_label = prompt[i]
            /\ a.out_label = prompt[i]})

\* C6 as stated: the self-loop is present, once, for exactly the words that are
\* last or followed by a word with a different label.
C6_RepeatLoopsAsStated ==
    pc = "done" =>
        \A i \in 1..Len(prompt) :
            RepeatLoopsAt(i) =
                IF i = Len(prompt) \/ Differ(i) THEN 1 ELSE 0

\* The labels consumed at word i's final before the Repeat recipe runs: the
\* next word's correct arc, and the skip arc over the next word when the Skip
\* recipe added one.
HomophoneAtFinal(i) ==
    \/ prompt[i] \in fst.homophones[prompt[i + 1]]
    \/ /\ i + 2 <= Len(prompt)
       /\ Differ(i + 1)
       /\ prompt[i + 2] \notin fst.homophones[prompt[i + 1]]
       /\ prompt[i] \in fst.homophones[prompt[i + 2]]

\* C6 (amended): the self-loop is present, once, for exactly the last word and
\* the words followed by a word with a different label whose own label is in
\* the homophone set of no label already consumed at their final state (the
\* next word's, and the one after it when a skip arc over the next word
\* exists); every other word has none.
C6_RepeatLoops ==
    pc = "done" =>
        \A i \in 1..Len(prompt) :
            RepeatLoopsAt(i) =
                IF i = Len(prompt) \/ (Differ(i) /\ ~HomophoneAtFinal(i))
                THEN 1 ELSE 0

C6_Witness ==
    /\ pc = "done"
    /\ prompt = <<"read", "the", "read">>
    /\ fst.homophones["read"] = {"read"}
    /\ RepeatLoopsAt(1) = 0
    /\ RepeatLoopsAt(2) = 1
    /\ RepeatLoopsAt(3) = 1

(***************************************************************************)
(* The emitted weights.  The arcs carry integer weights, and for an        *)
(* integer c the number e^c is irrational unless c = 0: an integer c is    *)
(* the cost -ln(num/den) of a ratio of integers only when c = 0 and        *)
(* num = den.                                                              *)
(***************************************************************************)
IsCostOf(c, num, den) == c = 0 /\ num = den

\* The relative weight of the category an emitted arc line belongs to.
RelativeWeight(line) ==
    IF line[3] = special_labels.Rubbish THEN weights.Rubbish
    ELSE IF line[4] = special_labels.Skip THEN weights.Skip
    ELSE IF line[3] = special_labels.Epsilon THEN weights.Correct
    ELSE IF line[1] = line[2] THEN weights.Repeat
    ELSE weights.Correct

IsArcLine(line) == Len(line) = 5

RECURSIVE TotalRelativeFrom(_, _, _)
TotalRelativeFrom(lines, s, k) ==
    IF k > Len(lines) THEN 0
    ELSE (IF IsArcLine(lines[k]) /\ lines[k][1] = s
          THEN RelativeWeight(lines[k]) ELSE 0)
             + TotalRelativeFrom(lines, s, k + 1)

\* C7: every emitted arc weight is the cost -ln(p) of the arc's relative weight
\* normalised over the arcs leaving the same state; the final-state weight is
\* emitted unchanged.
C7_NormalisedCosts ==
    pc = "done" =>
        \A k \in 1..Len(output) :
            IF IsArcLine(output[k])
            THEN IsCostOf(output[k][5], RelativeWeight(output[k]),
                          TotalRelativeFrom(output, output[k][1], 1))
            ELSE output[k][2] = weights.FinalState

(***************************************************************************)
(* Order of the recipes.                                                   *)
(***************************************************************************)
SameGraph(p, q) ==
    /\ DOMAIN p.states = DOMAIN q.states
    /\ \A s \in DOMAIN p.states : Entries(p, s) = Entries(q, s)

FixedOrderResult ==
    addRepeatPaths(addSkipPaths(addRubbishPaths(addCorrectPaths(
        addWordSequence(PromptLMFST(fst.homophones), prompt)))))

\* C9 as stated: whatever the order of the recipes after the correct paths,
\* every state ends with the arcs and final markers of the fixed order.
C9_CommuteAsStated ==
    pc = "done" => SameGraph(fst, FixedOrderResult)

PositionOf(name) == CHOOSE k \in 1..3 : order[k] = name

\* A state that is offered both a skip arc and a repeat self-loop with
\* homophonous labels, neither being dropped for the correct arc there.
SkipRepeatClash ==
    \E i \in 1..(Len(prompt) - 2) :
        /\ Differ(i) /\ Differ(i + 1)
        /\ prompt[i] \in fst.homophones[prompt[i + 2]]
        /\ prompt[i] \notin fst.homophones[prompt[i + 1]]
        /\ prompt[i + 2] \notin fst.homophones[prompt[i + 1]]

\* C9 (amended): the Rubbish recipe commutes with the other two, and the Skip
\* and Repeat recipes commute with each other unless some word's label is a
\* homophone of (or, being listed in the homophone file, equal to) the label
\* two words later while both differ from, and are no homophones of, the label
\* between them: then whichever of the two recipes runs first keeps its arc.
C9_Commute ==
    pc = "done" /\ (PositionOf("Skip") < PositionOf("Repeat") \/ ~SkipRepeatClash)
        => SameGraph(fst, FixedOrderResult)

C9_Witness ==
    /\ pc = "done"
    /\ order = <<"Repeat", "Skip", "Rubbish">>
    /\ prompt = <<"read", "the", "red">>
    /\ fst.homophones["the"] = {"the", "red"}
    /\ fst.homophones["read"] = {"read"}

====
